---- MODULE Spec2Model ----
(***************************************************************************)
(* Model of documents/ebook/scripts/update-image-references.py.            *)
(*                                                                         *)
(* Text (file content, file names, output text) is a sequence of           *)
(* one-character strings, so that the regular expression, the slicing and  *)
(* the substring tests of the script are computed character by character.  *)
(***************************************************************************)
EXTENDS Integers, Sequences, FiniteSets, TLC

VARIABLES
    \* ---- main(): one invocation of the script over the ebook directory
    argv,             \* sys.argv
    dir,              \* the ebook directory: file name -> content on disk
    dir0,             \* history: the directory as it was when the run began
    pc,               \* "start", "loop", "done" or "failed" (uncaught error)
    dry_run,          \* main's dry_run
    md_files,         \* what is left of sorted(ebook_dir.glob('*.md'))
    total_replaced,   \* main's total_replaced
    files_updated,    \* main's files_updated
    stdout,           \* the lines printed so far, one record per print
    opened_r,         \* history: names opened with mode 'r'
    opened_w,         \* history: names opened with mode 'w'
    failed_on,        \* history: the file the uncaught error was raised on
    \* ---- the locals of the last call of update_markdown_file()
    file_stem,        \* file_path.stem
    content,          \* content, as read from the file
    calls,            \* the replace_prompt calls re.subn made: their locals
    updated_content,  \* updated_content
    count,            \* count
    \* ---- update_markdown_file() called again and again on one file
    file,             \* that file's content on disk
    runs              \* how many times update_markdown_file has run on it

mainVars == <<argv, dir, dir0, pc, dry_run, md_files, total_replaced,
              files_updated, stdout, opened_r, opened_w, failed_on>>
callVars == <<file_stem, content, calls, updated_content, count>>
fileVars == <<file, runs>>
vars == <<mainVars, callVars, fileVars>>

(***************************************************************************)
(* Bounds of the model.                                                    *)
(***************************************************************************)
MaxPieces == 3   \* a sample content is the concatenation of at most MaxPieces pieces
MaxRuns == 2     \* update_markdown_file runs at most MaxRuns times on the one file
MaxFiles == 3    \* the ebook directory holds at most MaxFiles files

(***************************************************************************)
(* Text helpers.                                                           *)
(***************************************************************************)
Min(a, b) == IF a < b THEN a ELSE b

\* Body(e), with e evaluated once and then used as a value
Bind(e, Body(_)) == CHOOSE out \in {Body(x) : x \in {e}} : TRUE

\* the least element of a non-empty set of integers
Least(S) == CHOOSE x \in S : \A y \in S : x <= y

\* the text `lit` stands in `s` at index i
IsAt(s, i, lit) ==
    /\ i >= 1
    /\ i + Len(lit) - 1 <= Len(s)
    /\ \A k \in 1..Len(lit) : s[i + k - 1] = lit[k]

\* Python's `sub in s` on strings
Contains(sub, s) == \E i \in 1..(Len(s) - Len(sub) + 1) : IsAt(s, i, sub)

\* Python's s.replace(a, b) for single characters a and b
Replace(s, a, b) == [k \in 1..Len(s) |-> IF s[k] = a THEN b ELSE s[k]]

\* c repeated n times
Rep(c, n) == [k \in 1..n |-> c]

RECURSIVE Flatten(_)
Flatten(ss) == IF ss = <<>> THEN <<>> ELSE Head(ss) \o Flatten(Tail(ss))

(***************************************************************************)
(* The pattern of line 21: the literal text of MarkerOpen, group 1 (one or *)
(* more digits), the literal text of MarkerClose, then group 2: one or     *)
(* more characters other than a newline, followed by any number of further *)
(* lines, each a newline not followed by a newline, by two hashes or by    *)
(* two stars and an opening bracket, then one or more characters other     *)
(* than a newline.                                                         *)
(***************************************************************************)
Digit == {"0", "1", "2", "3", "4", "5", "6", "7", "8", "9"}

MarkerOpen == <<"*", "*", "[", "I", "M", "A", "G", "E", " ",
                "P", "R", "O", "M", "P", "T", " ">>

MarkerClose == <<"]", "*", "*", ":">>

\* the negative lookahead: what may not follow the newline that continues a description
LookaheadStops == { <<"\n">>, <<"#", "#">>, <<"*", "*", "[">> }

\* \d+ from index i, greedy: the index after the last digit
RECURSIVE SkipDigits(_, _)
SkipDigits(s, i) ==
    IF i <= Len(s) /\ s[i] \in Digit THEN SkipDigits(s, i + 1) ELSE i

\* [^\n]+ from index i, greedy: the index of the next newline, or Len(s) + 1
SkipLine(s, i) ==
    Bind({j \in i..Len(s) : s[j] = "\n"},
         LAMBDA newlines : IF newlines = {} THEN Len(s) + 1 ELSE Least(newlines))

\* [^\n]+ matches at index i: a character other than a newline stands there
NonNewlineAt(s, i) == i <= Len(s) /\ s[i] # "\n"

\* group 2 from index `from`, greedy: one line of characters other than a
\* newline, then as long as the newline after it is followed neither by a
\* lookahead stop nor by the end of the text, the line after that newline;
\* the index after the last character taken
RECURSIVE Group2End(_, _)
Group2End(s, from) ==
    Bind(SkipLine(s, from),
         LAMBDA e :
            IF /\ e <= Len(s)
               /\ \A stop \in LookaheadStops : ~IsAt(s, e + 1, stop)
               /\ NonNewlineAt(s, e + 1)
            THEN Group2End(s, e + 1)
            ELSE e)

NoMatch == [start |-> 0, end |-> 0, num_at |-> 0, num_end |-> 0, text_at |-> 0]

\* the rest of the pattern once MarkerOpen stands at index i and the digits
\* after it end before index num_end
PatternTail(s, i, num_end) ==
    LET num_at  == i + Len(MarkerOpen)
        text_at == num_end + Len(MarkerClose)
    IN  IF /\ num_end > num_at
           /\ IsAt(s, num_end, MarkerClose)
           /\ NonNewlineAt(s, text_at)
        THEN [start |-> i, end |-> Group2End(s, text_at),
              num_at |-> num_at, num_end |-> num_end, text_at |-> text_at]
        ELSE NoMatch

\* the match of the pattern that begins at index i, if there is one:
\* [start, end) is the span, [num_at, num_end) group 1, [text_at, end) group 2
pattern(s, i) ==
    IF IsAt(s, i, MarkerOpen)
    THEN Bind(SkipDigits(s, i + Len(MarkerOpen)),
              LAMBDA num_end : PatternTail(s, i, num_end))
    ELSE NoMatch

\* the non-overlapping matches re.subn finds, scanning s left to right from i:
\* the match at the first index from i on where the pattern matches, then
\* the matches from the end of that match on
RECURSIVE FindAll(_, _)
FindAll(s, i) ==
    Bind({j \in i..Len(s) : pattern(s, j) # NoMatch},
         LAMBDA at :
            IF at = {} THEN <<>>
            ELSE Bind(pattern(s, Least(at)),
                      LAMBDA m : <<m>> \o FindAll(s, m.end)))

(***************************************************************************)
(* replace_prompt (lines 23-59).                                           *)
(***************************************************************************)
Whitespace == {" ", "\t", "\n", "\r"}

RECURSIVE LStripAt(_, _)
LStripAt(s, i) ==
    IF i <= Len(s) /\ s[i] \in Whitespace THEN LStripAt(s, i + 1) ELSE i

RECURSIVE RStripAt(_, _)
RStripAt(s, j) ==
    IF j >= 1 /\ s[j] \in Whitespace THEN RStripAt(s, j - 1) ELSE j

\* Python's s.strip()
strip(s) == Bind(s, LAMBDA t : SubSeq(t, LStripAt(t, 1), RStripAt(t, Len(t))))

chapter == <<"c", "h", "a", "p", "t", "e", "r">>
part == <<"p", "a", "r", "t">>

\* the values subdir takes (lines 33-49)
Part1Foundation == part \o <<"1", "-", "f", "o", "u", "n", "d", "a", "t", "i", "o", "n">>
Part2Configuration ==
    part \o <<"2", "-", "c", "o", "n", "f", "i", "g", "u", "r", "a", "t", "i", "o", "n">>
Part3Advanced == part \o <<"3", "-", "a", "d", "v", "a", "n", "c", "e", "d">>
Part4Operations == part \o <<"4", "-", "o", "p", "e", "r", "a", "t", "i", "o", "n", "s">>
Part5Development ==
    part \o <<"5", "-", "d", "e", "v", "e", "l", "o", "p", "m", "e", "n", "t">>
Part6Analysis == part \o <<"6", "-", "a", "n", "a", "l", "y", "s", "i", "s">>
Part7Vision == part \o <<"7", "-", "v", "i", "s", "i", "o", "n">>
Appendices == <<"a", "p", "p", "e", "n", "d", "i", "c", "e", "s">>
Images == <<"i", "m", "a", "g", "e", "s">>
appendix == <<"a", "p", "p", "e", "n", "d", "i", "x">>

\* a version of the chain that tests the two-digit chapters of each row
\* before the one-digit chapters
subdir_two_digits_first(chapter_name) ==
    LET in(tok) == Contains(tok, chapter_name)
        any(toks) == \E tok \in toks : in(tok)
    IN  IF any({chapter \o <<"1", d>> : d \in {"0", "1", "2"}}) THEN Part3Advanced
        ELSE IF any({chapter \o <<"1", d>> : d \in {"3", "4"}}) THEN Part4Operations
        ELSE IF any({chapter \o <<"1", d>> : d \in {"5", "6", "7", "8"}}) THEN Part5Development
        ELSE IF any({chapter \o <<"1", "9">>, chapter \o <<"2", "0">>}) THEN Part6Analysis
        ELSE IF any({chapter \o <<"2", d>> : d \in {"1", "2"}}) THEN Part7Vision
        ELSE IF any({part \o <<"1">>} \cup {chapter \o <<d>> : d \in {"1", "2", "3"}})
        THEN Part1Foundation
        ELSE IF any({part \o <<"2">>} \cup {chapter \o <<d>> : d \in {"4", "5", "6", "7"}})
        THEN Part2Configuration
        ELSE IF any({part \o <<"3">>} \cup {chapter \o <<d>> : d \in {"8", "9"}})
        THEN Part3Advanced
        ELSE IF any({part \o <<d>> : d \in {"4"}}) THEN Part4Operations
        ELSE IF any({part \o <<d>> : d \in {"5"}}) THEN Part5Development
        ELSE IF any({part \o <<d>> : d \in {"6"}}) THEN Part6Analysis
        ELSE IF any({part \o <<d>> : d \in {"7"}}) THEN Part7Vision
        ELSE IF in(appendix) THEN Appendices
        ELSE Images

\* lines 32-49: the if/elif chain over chapter_name
subdir(chapter_name) ==
    LET in(tok) == Contains(tok, chapter_name)
    IN  IF in(part \o <<"1">>) \/ in(chapter \o <<"1">>)
           \/ in(chapter \o <<"2">>) \/ in(chapter \o <<"3">>)
        THEN Part1Foundation
        ELSE IF in(part \o <<"2">>) \/ in(chapter \o <<"4">>)
           \/ in(chapter \o <<"5">>) \/ in(chapter \o <<"6">>)
           \/ in(chapter \o <<"7">>)
        THEN Part2Configuration
        ELSE IF in(part \o <<"3">>) \/ in(chapter \o <<"8">>)
           \/ in(chapter \o <<"9">>) \/ in(chapter \o <<"1", "0">>)
           \/ in(chapter \o <<"1", "1">>) \/ in(chapter \o <<"1", "2">>)
        THEN Part3Advanced
        ELSE IF in(part \o <<"4">>) \/ in(chapter \o <<"1", "3">>)
           \/ in(chapter \o <<"1", "4">>)
        THEN Part4Operations
        ELSE IF in(part \o <<"5">>) \/ in(chapter \o <<"1", "5">>)
           \/ in(chapter \o <<"1", "6">>) \/ in(chapter \o <<"1", "7">>)
           \/ in(chapter \o <<"1", "8">>)
        THEN Part5Development
        ELSE IF in(part \o <<"6">>) \/ in(chapter \o <<"1", "9">>)
           \/ in(chapter \o <<"2", "0">>)
        THEN Part6Analysis
        ELSE IF in(part \o <<"7">>) \/ in(chapter \o <<"2", "1">>)
           \/ in(chapter \o <<"2", "2">>)
        THEN Part7Vision
        ELSE IF in(appendix)
        THEN Appendices
        ELSE Images

\* line 55: the slice bound of prompt_text[:100]
AltMax == 100

\* line 55 without its second replace: double quotes stay
alt_text_quotes_kept(prompt_text) ==
    Replace(SubSeq(prompt_text, 1, Min(AltMax, Len(prompt_text))), "\n", " ")

\* line 55: prompt_text[:100].replace('\n', ' ').replace('"', "'")
alt_text(prompt_text) ==
    Replace(Replace(SubSeq(prompt_text, 1, Min(AltMax, Len(prompt_text))),
                    "\n", " "), "\"", "'")

\* line 29: f"{chapter_name}-{prompt_num}.png"
image_filename(chapter_name, prompt_num) ==
    chapter_name \o <<"-">> \o prompt_num \o <<".", "p", "n", "g">>

\* line 51: f"images/{subdir}/{image_filename}"
image_path(chapter_name, prompt_num) ==
    Images \o <<"/">> \o subdir(chapter_name) \o <<"/">>
        \o image_filename(chapter_name, prompt_num)

\* the digits of int(prompt_num): no leading zeros
RECURSIVE IntDigits(_)
IntDigits(num) == IF Len(num) > 1 /\ Head(num) = "0" THEN IntDigits(Tail(num)) ELSE num

\* line 57 with the caption's number formatted from int(prompt_num)
replacement_int_number(alt, path, prompt_num) ==
    <<"!", "[">> \o alt \o <<"]", "(">> \o path \o <<")", "\n", "\n">>
        \o <<"*", "F", "i", "g", "u", "r", "e", " ">> \o IntDigits(prompt_num) \o <<":", " ">>
        \o alt \o <<".", ".", ".", "*">>

\* line 57: f'![{alt_text}]({image_path})\n\n*Figure {prompt_num}: {alt_text}...*'
replacement(alt, path, prompt_num) ==
    <<"!", "[">> \o alt \o <<"]", "(">> \o path \o <<")", "\n", "\n">>
        \o <<"*", "F", "i", "g", "u", "r", "e", " ">> \o prompt_num \o <<":", " ">>
        \o alt \o <<".", ".", ".", "*">>

\* one call of replace_prompt on match m of text s, for the file with stem
\* chapter_name: the match's span and groups, and the call's locals
replace_prompt(s, m, chapter_name) ==
    Bind(SubSeq(s, m.num_at, m.num_end - 1), LAMBDA prompt_num :
    Bind(SubSeq(s, m.text_at, m.end - 1), LAMBDA group2 :
    Bind(strip(group2), LAMBDA prompt_text :
    Bind(alt_text(prompt_text), LAMBDA alt :
    Bind(image_path(chapter_name, prompt_num), LAMBDA path :
        [start |-> m.start, end |-> m.end, group2 |-> group2,
         prompt_num |-> prompt_num, prompt_text |-> prompt_text,
         subdir |-> subdir(chapter_name), image_path |-> path,
         alt_text |-> alt,
         replacement |-> replacement(alt, path, prompt_num)])))))

(***************************************************************************)
(* re.subn(pattern, replace_prompt, content) (line 62).                    *)
(***************************************************************************)
\* the replace_prompt calls re.subn makes on text s, in order
replace_prompt_calls(s, chapter_name) ==
    Bind(FindAll(s, 1),
         LAMBDA ms : [k \in 1..Len(ms) |-> replace_prompt(s, ms[k], chapter_name)])

\* the text re.subn returns: s from index pos on, with the spans of the
\* calls cs[k], cs[k+1], ... replaced by what the calls returned
RECURSIVE subn(_, _, _, _)
subn(s, cs, k, pos) ==
    IF k > Len(cs) THEN SubSeq(s, pos, Len(s))
    ELSE SubSeq(s, pos, cs[k].start - 1) \o cs[k].replacement
            \o subn(s, cs, k + 1, cs[k].end)

(***************************************************************************)
(* update_markdown_file after re.subn (lines 64-73).                       *)
(***************************************************************************)
\* lines 64-65: the file is opened for writing
should_write(c, dry) == c > 0 /\ ~dry

\* lines 68 and 70: the line printed for the file, none when count is 0
file_line(file_name, c, dry) ==
    IF c > 0
    THEN <<[line |-> IF dry THEN "[DRY RUN] Would update" ELSE "Updated",
            name |-> file_name, n |-> c]>>
    ELSE <<>>

(***************************************************************************)
(* Sample texts: every concatenation of at most MaxPieces pieces.          *)
(***************************************************************************)
\* a marker numbered 1 whose description begins on its line
PieceMarker == MarkerOpen \o <<"1">> \o MarkerClose \o <<" ", "A">>
\* a marker numbered 07 with nothing after its colon
PieceBareMarker == MarkerOpen \o <<"0", "7">> \o MarkerClose
PieceNewline == <<"\n">>
PieceWords == <<" ", "s", "u", "n">>
PieceHeading == <<"#", "#", " ", "H">>
PieceBold == <<"*", "*", "[", "b", "]">>
PieceQuoted == <<"\"", "q", "\"", " ">>
\* two lines of text, longer than AltMax characters together
PieceLong ==
    <<" ", "\"">> \o Rep("x", AltMax \div 2) \o <<"\n">> \o Rep("y", AltMax \div 2) \o <<"\t">>

Pieces == {PieceMarker, PieceBareMarker, PieceNewline, PieceWords, PieceHeading,
           PieceBold, PieceQuoted, PieceLong}

RECURSIVE PieceSeqs(_)
PieceSeqs(n) ==
    IF n = 0 THEN {<<>>}
    ELSE LET shorter == PieceSeqs(n - 1)
         IN  shorter \cup {Append(ps, p) : ps \in {q \in shorter : Len(q) = n - 1}, p \in Pieces}

Contents == {Flatten(ps) : ps \in PieceSeqs(MaxPieces)}

md == <<".", "m", "d">>

Stems == { chapter \o <<"1">>, chapter \o <<"1", "0">>, chapter \o <<"1", "3">>,
           chapter \o <<"1", "9">>, chapter \o <<"2", "0">>, chapter \o <<"2", "2">>,
           chapter \o <<"4">>, chapter \o <<"9">>, chapter \o <<"0", "8">>,
           part \o <<"3">>, part \o <<"4", "-", "x">>, part \o <<"5">>,
           <<"x">> \o part \o <<"6">>, part \o <<"7">>,
           appendix \o <<"-", "a">>,
           <<"i", "n", "t", "r", "o">>, <<"C", "h", "a", "p", "t", "e", "r", "1">> }

\* the texts tried with every stem
StemContents == {PieceMarker, PieceBareMarker \o PieceWords}

(***************************************************************************)
(* update_markdown_file, in normal mode, run up to MaxRuns times on one    *)
(* file.                                                                   *)
(***************************************************************************)
NoCallYet ==
    /\ content = <<>>
    /\ calls = <<>>
    /\ updated_content = <<>>
    /\ count = 0

MainIdle ==
    /\ argv = <<>>
    /\ dir = <<>>
    /\ dir0 = <<>>
    /\ pc = "idle"
    /\ dry_run = FALSE
    /\ md_files = <<>>
    /\ total_replaced = 0
    /\ files_updated = 0
    /\ stdout = <<>>
    /\ opened_r = {}
    /\ opened_w = {}
    /\ failed_on = <<>>

InitReplacer ==
    /\ MainIdle
    /\ \/ file_stem \in Stems /\ file \in StemContents
       \/ file_stem = chapter \o <<"1">> /\ file \in Contents
    /\ NoCallYet
    /\ runs = 0

\* lines 16-73 with dry_run = False: read, substitute, write when count > 0
Run ==
    /\ runs < MaxRuns
    /\ content' = file
    /\ calls' = replace_prompt_calls(content', file_stem)
    /\ updated_content' = subn(content', calls', 1, 1)
    /\ count' = Len(calls')
    /\ file' = IF should_write(count', FALSE) THEN updated_content' ELSE file
    /\ runs' = runs + 1
    /\ UNCHANGED <<file_stem, mainVars>>

NextReplacer == Run

SpecReplacer == InitReplacer /\ [][NextReplacer]_vars

(***************************************************************************)
(* main (lines 75-109) over the ebook directory.                           *)
(***************************************************************************)
\* the characters of file names, in code point order
CodeOrder == <<"-", ".", "0", "1", "2", "3", "4", "5", "6", "7", "8", "9",
               "A", "D", "E", "M", "R", "a", "c", "d", "e", "h", "i", "m", "n",
               "o", "p", "r", "s", "t", "x">>

Ord(c) == CHOOSE i \in 1..Len(CodeOrder) : CodeOrder[i] = c

\* a < b as Python compares strings
LexLess(a, b) ==
    \E k \in 1..(Len(b)) :
        /\ k <= Len(a) + 1
        /\ \A j \in 1..(k - 1) : a[j] = b[j]
        /\ (k = Len(a) + 1 \/ Ord(a[k]) < Ord(b[k]))

\* the names in the order opposite to sorted's
RECURSIVE sorted_descending(_)
sorted_descending(S) ==
    IF S = {} THEN <<>>
    ELSE Bind(CHOOSE a \in S : \A b \in S \ {a} : LexLess(b, a),
              LAMBDA greatest :
                 Bind(S \ {greatest}, LAMBDA rest : <<greatest>> \o sorted_descending(rest)))

\* sorted(...) of a set of names (line 93)
RECURSIVE sorted(_)
sorted(S) ==
    IF S = {} THEN <<>>
    ELSE Bind(CHOOSE a \in S : \A b \in S \ {a} : LexLess(a, b),
              LAMBDA least : Bind(S \ {least}, LAMBDA rest : <<least>> \o sorted(rest)))

\* ebook_dir.glob('*.md') (line 93): the names that end in .md
glob_md(d) == {name \in DOMAIN d : IsAt(name, Len(name) - Len(md) + 1, md)}

\* file_path.stem (line 28): the name without its last suffix
stem(name) ==
    LET dots == {i \in 1..Len(name) : name[i] = "."}
        last == CHOOSE i \in dots : \A j \in dots : j <= i
    IN  IF dots # {} /\ 1 < last /\ last < Len(name)
        THEN SubSeq(name, 1, last - 1)
        ELSE name

README == <<"R", "E", "A", "D", "M", "E">> \o md

\* line 94 with a test that never holds
is_readme_never(name) == FALSE

\* line 94: md_file.name == 'README.md'
is_readme(name) == name = README

\* line 79 without its second test: only --dry-run is recognised
parse_dry_run_long_only(args) == \E i \in 1..Len(args) : args[i] = "--dry-run"

\* line 79: '--dry-run' in sys.argv or '-n' in sys.argv
parse_dry_run(args) ==
    (\E i \in 1..Len(args) : args[i] = "--dry-run") \/ (\E i \in 1..Len(args) : args[i] = "-n")

\* lines 98-100 without the test of line 98
accumulate_always(total, files, c) ==
    [total_replaced |-> total + c, files_updated |-> files + 1]

\* lines 98-100: main's counters after a call that returned c
accumulate(total, files, c) ==
    IF c > 0 THEN [total_replaced |-> total + c, files_updated |-> files + 1]
    ELSE [total_replaced |-> total, files_updated |-> files]

Line(text, number) == [line |-> text, name |-> <<>>, n |-> number]

\* lines 81-83
header(dry) ==
    IF dry THEN <<Line("=== DRY RUN MODE ===", 0), Line("No files will be modified.", 0)>>
    ELSE <<>>

\* lines 102-109
summary(dry, files, total) ==
    << Line(IF dry THEN "[DRY RUN] Summary:" ELSE "Summary:", 0),
       Line("Files processed:", files),
       Line("Total images replaced:", total),
       Line(IF dry THEN "Run without --dry-run to apply changes."
            ELSE "Image references updated successfully!", 0) >>

\* the names the directory may hold
Names == { README,
           chapter \o <<"1">> \o md,
           chapter \o <<"1", "0">> \o md,
           appendix \o md,
           <<"n", "o", "t", "e", "s", ".", "t", "x", "t">> }

\* the contents a file may have: no marker, one marker, two markers
DirContents == { PieceHeading \o PieceNewline \o PieceWords,
                 PieceMarker \o PieceWords,
                 PieceMarker \o PieceNewline \o PieceWords \o PieceNewline \o PieceNewline
                     \o PieceBareMarker \o PieceQuoted }

Script == "update-image-references.py"

ArgvChoices == { <<Script>>, <<Script, "--dry-run">>, <<Script, "-n">>, <<Script, "-v">> }

FileIdle ==
    /\ file = <<>>
    /\ runs = 0

Init ==
    /\ FileIdle
    /\ file_stem = <<>>
    /\ NoCallYet
    /\ argv \in ArgvChoices
    /\ \E N \in SUBSET Names :
          /\ Cardinality(N) <= MaxFiles
          /\ dir \in [N -> DirContents]
    /\ dir0 = dir
    /\ pc = "start"
    /\ dry_run = FALSE
    /\ md_files = <<>>
    /\ total_replaced = 0
    /\ files_updated = 0
    /\ stdout = <<>>
    /\ opened_r = {}
    /\ opened_w = {}
    /\ failed_on = <<>>

\* lines 79-93: the flag, the header, the counters, the sorted listing
Begin ==
    /\ pc = "start"
    /\ dry_run' = parse_dry_run(argv)
    /\ stdout' = header(parse_dry_run(argv))
    /\ total_replaced' = 0
    /\ files_updated' = 0
    /\ md_files' = sorted(glob_md(dir))
    /\ pc' = "loop"
    /\ UNCHANGED <<argv, dir, dir0, opened_r, opened_w, failed_on, callVars, fileVars>>

\* lines 94-95: continue
SkipReadme ==
    /\ pc = "loop"
    /\ md_files # <<>>
    /\ is_readme(Head(md_files))
    /\ md_files' = Tail(md_files)
    /\ UNCHANGED <<argv, dir, dir0, pc, dry_run, total_replaced, files_updated,
                   stdout, opened_r, opened_w, failed_on, callVars, fileVars>>

\* lines 97-100: one call of update_markdown_file that returns
Process ==
    /\ pc = "loop"
    /\ md_files # <<>>
    /\ ~is_readme(Head(md_files))
    /\ file_stem' = stem(Head(md_files))
    /\ content' = dir[Head(md_files)]
    /\ calls' = replace_prompt_calls(content', file_stem')
    /\ updated_content' = subn(content', calls', 1, 1)
    /\ count' = Len(calls')
    /\ dir' = IF should_write(count', dry_run)
              THEN [dir EXCEPT ![Head(md_files)] = updated_content']
              ELSE dir
    /\ opened_r' = opened_r \cup {Head(md_files)}
    /\ opened_w' = IF should_write(count', dry_run)
                   THEN opened_w \cup {Head(md_files)}
                   ELSE opened_w
    /\ stdout' = stdout \o file_line(Head(md_files), count', dry_run)
    /\ total_replaced' = accumulate(total_replaced, files_updated, count').total_replaced
    /\ files_updated' = accumulate(total_replaced, files_updated, count').files_updated
    /\ md_files' = Tail(md_files)
    /\ UNCHANGED <<argv, dir0, pc, dry_run, failed_on, fileVars>>

\* lines 16-17: open(file_path, 'r') or f.read() raises; nothing catches it
ReadError ==
    /\ pc = "loop"
    /\ md_files # <<>>
    /\ ~is_readme(Head(md_files))
    /\ opened_r' = opened_r \cup {Head(md_files)}
    /\ failed_on' = Head(md_files)
    /\ pc' = "failed"
    /\ UNCHANGED <<argv, dir, dir0, dry_run, md_files, total_replaced, files_updated,
                   stdout, opened_w, callVars, fileVars>>

\* lines 66-67: open(file_path, 'w') or f.write() raises; nothing catches it.
\* The file is as it was (open raised), empty (open truncated it) or holds
\* the first part of the updated content (the write stopped half way).
WriteError ==
    /\ pc = "loop"
    /\ md_files # <<>>
    /\ ~is_readme(Head(md_files))
    /\ file_stem' = stem(Head(md_files))
    /\ content' = dir[Head(md_files)]
    /\ calls' = replace_prompt_calls(content', file_stem')
    /\ updated_content' = subn(content', calls', 1, 1)
    /\ count' = Len(calls')
    /\ should_write(count', dry_run)
    /\ \E left \in {content', <<>>, SubSeq(updated_content', 1, Len(updated_content') \div 2)} :
          dir' = [dir EXCEPT ![Head(md_files)] = left]
    /\ opened_r' = opened_r \cup {Head(md_files)}
    /\ opened_w' = opened_w \cup {Head(md_files)}
    /\ failed_on' = Head(md_files)
    /\ pc' = "failed"
    /\ UNCHANGED <<argv, dir0, dry_run, md_files, total_replaced, files_updated,
                   stdout, fileVars>>

\* lines 102-109: the loop is over
Summary ==
    /\ pc = "loop"
    /\ md_files = <<>>
    /\ stdout' = stdout \o summary(dry_run, files_updated, total_replaced)
    /\ pc' = "done"
    /\ UNCHANGED <<argv, dir, dir0, dry_run, md_files, total_replaced, files_updated,
                   opened_r, opened_w, failed_on, callVars, fileVars>>

Next ==
    \/ Begin
    \/ SkipReadme
    \/ Process
    \/ ReadError
    \/ WriteError
    \/ Summary

Spec == Init /\ [][Next]_vars

(***************************************************************************)
(* Properties of update_markdown_file's substitution, under SpecReplacer.  *)
(***************************************************************************)
\* a prompt marker stands at index i of s: MarkerOpen, digits, MarkerClose
MarkerAt(s, i) ==
    /\ IsAt(s, i, MarkerOpen)
    /\ \E e \in (i + Len(MarkerOpen) + 1)..Len(s) :
          /\ \A k \in (i + Len(MarkerOpen))..(e - 1) : s[k] \in Digit
          /\ IsAt(s, e, MarkerClose)

\* the index after the colon of the marker that stands at index i of s
AfterColon(s, i) == Least({j \in i..Len(s) : s[j] = ":"}) + 1

\* a prompt marker with a description stands at index i of s: the text of
\* the description begins on the marker's line, or on the line after it when
\* that line begins neither a heading nor another marker
DescribedMarkerAt(s, i) ==
    /\ MarkerAt(s, i)
    /\ \/ NonNewlineAt(s, AfterColon(s, i))
       \/ /\ IsAt(s, AfterColon(s, i), <<"\n">>)
          /\ NonNewlineAt(s, AfterColon(s, i) + 1)
          /\ \A stop \in LookaheadStops : ~IsAt(s, AfterColon(s, i) + 1, stop)

Markers(s) == {i \in 1..Len(s) : DescribedMarkerAt(s, i)}

CallIndexes == 1..Len(calls)

\* C1: a run on content that an earlier run has already updated makes zero
\* replacements and returns that content unchanged, whatever the description
\* texts of the original content were.
C1_SecondRunChangesNothing ==
    runs >= 2 => (count = 0 /\ updated_content = content)

\* C3: the count the substitution returns is the number of prompt markers in
\* the content it read, a marker being any occurrence of the marker text with
\* its digits, also one on the line of an earlier marker's description and
\* one whose description starts on the following line.
C3_CountIsNumberOfMarkers ==
    runs >= 1 => count = Cardinality(Markers(content))

\* C6: the span matched for one marker holds no other prompt marker, no
\* blank line and no line that begins a heading.
C6_SpanHoldsOneMarker ==
    runs >= 1 =>
        \A k \in CallIndexes :
            /\ \A i \in (calls[k].start + 1)..(calls[k].end - 1) :
                  ~DescribedMarkerAt(content, i)
            /\ \A i \in calls[k].start..(calls[k].end - 2) :
                  content[i] = "\n" =>
                      /\ content[i + 1] # "\n"
                      /\ ~IsAt(content, i + 1, <<"#", "#">>)

\* the ordered table of tokens and labels
Table ==
    << [tokens |-> {part \o <<"1">>} \cup {chapter \o <<d>> : d \in {"1", "2", "3"}},
        label |-> Part1Foundation],
       [tokens |-> {part \o <<"2">>} \cup {chapter \o <<d>> : d \in {"4", "5", "6", "7"}},
        label |-> Part2Configuration],
       [tokens |-> {part \o <<"3">>, chapter \o <<"8">>, chapter \o <<"9">>}
                       \cup {chapter \o <<"1", d>> : d \in {"0", "1", "2"}},
        label |-> Part3Advanced],
       [tokens |-> {part \o <<"4">>} \cup {chapter \o <<"1", d>> : d \in {"3", "4"}},
        label |-> Part4Operations],
       [tokens |-> {part \o <<"5">>} \cup {chapter \o <<"1", d>> : d \in {"5", "6", "7", "8"}},
        label |-> Part5Development],
       [tokens |-> {part \o <<"6">>, chapter \o <<"1", "9">>, chapter \o <<"2", "0">>},
        label |-> Part6Analysis],
       [tokens |-> {part \o <<"7">>, chapter \o <<"2", "1">>, chapter \o <<"2", "2">>},
        label |-> Part7Vision],
       [tokens |-> {appendix}, label |-> Appendices] >>

\* the label of the first row of the table with a token contained in st
FirstRowLabel(st) ==
    LET hits == {r \in 1..Len(Table) : \E tok \in Table[r].tokens : Contains(tok, st)}
    IN  IF hits = {} THEN Images ELSE Table[Least(hits)].label

\* C5: the subdirectory chosen for a stem is the label of the first row of
\* the table that has a token contained in the stem, images when no row has
\* one; so a stem that contains chapter1 or chapter2 gets part1-foundation.
C5_FirstRowWins ==
    runs >= 1 =>
        \A k \in CallIndexes :
            /\ calls[k].subdir = FirstRowLabel(file_stem)
            /\ IsAt(calls[k].image_path, Len(Images) + 2, FirstRowLabel(file_stem) \o <<"/">>)
            /\ (Contains(chapter \o <<"1">>, file_stem) \/ Contains(chapter \o <<"2">>, file_stem))
                  => calls[k].subdir = Part1Foundation

C5_Witness ==
    /\ runs >= 1
    /\ file_stem = chapter \o <<"1", "3">>
    /\ Len(calls) = 1
    /\ calls[1].subdir = Part1Foundation

\* what the replacements of the first k calls add to the length of the text
RECURSIVE Growth(_)
Growth(k) ==
    IF k = 0 THEN 0
    ELSE Growth(k - 1) + Len(calls[k].replacement) - (calls[k].end - calls[k].start)

\* the digits of the marker that stands at index i of s
MarkerDigits(s, i) ==
    SubSeq(s, i + Len(MarkerOpen), Least({j \in i..Len(s) : s[j] = "]"}) - 1)

\* the embed line, a blank line and the caption line
Block(alt, sub, st, N) ==
    <<"!", "[">> \o alt \o <<"]", "(">>
        \o Images \o <<"/">> \o sub \o <<"/">> \o st \o <<"-">> \o N \o <<".", "p", "n", "g">>
        \o <<")">>
        \o <<"\n">> \o <<"\n">>
        \o <<"*", "F", "i", "g", "u", "r", "e", " ">> \o N \o <<":", " ">> \o alt
        \o <<".", ".", ".", "*">>

\* C4: each matched marker is replaced by exactly the embed line with the
\* alt text and the path images/<subdir>/<stem>-<N>.png, a blank line and the
\* caption line with the same alt text, N being the marker's digits as they
\* stand in the content.
C4_ReplacementBlock ==
    runs >= 1 =>
        /\ Len(updated_content) = Len(content) + Growth(Len(calls))
        /\ \A k \in CallIndexes :
              LET block == Block(calls[k].alt_text, FirstRowLabel(file_stem), file_stem,
                                 MarkerDigits(content, calls[k].start))
              IN  /\ calls[k].replacement = block
                  /\ IsAt(updated_content, calls[k].start + Growth(k - 1), block)

C4_Witness ==
    /\ runs >= 1
    /\ \E k \in CallIndexes :
          /\ calls[k].prompt_num = <<"0", "7">>
          /\ IsAt(calls[k].replacement, Len(calls[k].replacement) - 3, <<".", ".", ".", "*">>)
    /\ updated_content # content

\* the description captured for call k: what stands between the marker's
\* colon and the end of the match
Captured(k) == SubSeq(content, AfterColon(content, calls[k].start), calls[k].end - 1)

\* d without its leading and trailing whitespace
Trimmed(d) ==
    LET inked == {i \in 1..Len(d) : d[i] \notin Whitespace}
    IN  IF inked = {} THEN <<>>
        ELSE SubSeq(d, Least(inked), CHOOSE i \in inked : \A j \in inked : j <= i)

\* C7: the alt text is the first 100 characters of the trimmed description,
\* all its captured lines included, with every newline turned into a space
\* and every double quote into a single quote: 100 characters long when the
\* trimmed description is longer, as long as it otherwise, and free of
\* newlines and double quotes.
C7_AltText ==
    runs >= 1 =>
        \A k \in CallIndexes :
            LET t == Trimmed(Captured(k))
                alt == calls[k].alt_text
            IN  /\ Len(alt) = IF Len(t) > 100 THEN 100 ELSE Len(t)
                /\ \A i \in 1..Len(alt) :
                      /\ alt[i] = IF t[i] = "\n" THEN " "
                                  ELSE IF t[i] = "\"" THEN "'"
                                  ELSE t[i]
                      /\ alt[i] \notin {"\n", "\""}

C7_Witness ==
    /\ runs >= 1
    /\ \E k \in CallIndexes :
          /\ Len(calls[k].prompt_text) > 100
          /\ Len(calls[k].alt_text) = 100
          /\ \E i \in 1..100 : calls[k].prompt_text[i] = "\n" /\ calls[k].alt_text[i] = " "
          /\ \E i \in 1..100 : calls[k].prompt_text[i] = "\"" /\ calls[k].alt_text[i] = "'"

(***************************************************************************)
(* Properties of main, under Spec.                                         *)
(***************************************************************************)
\* a recognised dry-run flag is among the arguments
DryFlag == \E i \in 1..Len(argv) : argv[i] \in {"--dry-run", "-n"}

\* the markdown files of the directory as the run found it, README.md apart
Candidates ==
    {name \in DOMAIN dir0 :
        /\ Len(name) >= 3
        /\ SubSeq(name, Len(name) - 2, Len(name)) = <<".", "m", "d">>
        /\ name # README}

\* what the substitution makes of file `name` as the run found it
CountOf(name) == Len(replace_prompt_calls(dir0[name], stem(name)))
UpdatedOf(name) ==
    subn(dir0[name], replace_prompt_calls(dir0[name], stem(name)), 1, 1)

\* the files whose call of update_markdown_file has returned
Processed == opened_r \ (IF pc = "failed" THEN {failed_on} ELSE {})

RECURSIVE SumOfCounts(_)
SumOfCounts(S) ==
    IF S = {} THEN 0
    ELSE LET name == CHOOSE x \in S : TRUE
         IN  CountOf(name) + SumOfCounts(S \ {name})

\* the per-file lines printed so far, and their counts added up
FileLines == SelectSeq(stdout, LAMBDA l : l.name # <<>>)

RECURSIVE SumOfLines(_)
SumOfLines(ls) == IF ls = <<>> THEN 0 ELSE Head(ls).n + SumOfLines(Tail(ls))

SummaryTexts ==
    {"Summary:", "[DRY RUN] Summary:", "Files processed:", "Total images replaced:",
     "Run without --dry-run to apply changes.", "Image references updated successfully!"}

\* the summary shows `files` files and `total` replacements
SummaryShows(files, total) ==
    /\ \E i \in 1..Len(stdout) : stdout[i].line = "Files processed:" /\ stdout[i].n = files
    /\ \E i \in 1..Len(stdout) :
          stdout[i].line = "Total images replaced:" /\ stdout[i].n = total

\* what a run of either mode reports when it completes: a line with its
\* count for every file the substitution changes, and their totals
ReportOfInitialFiles ==
    /\ {<<FileLines[i].name, FileLines[i].n>> : i \in 1..Len(FileLines)}
          = {<<name, CountOf(name)>> : name \in {x \in Candidates : CountOf(x) > 0}}
    /\ Len(FileLines) = Cardinality({x \in Candidates : CountOf(x) > 0})
    /\ SummaryShows(Cardinality({x \in Candidates : CountOf(x) > 0}),
                    SumOfCounts(Candidates))

\* C2: with --dry-run or -n among the arguments no file is modified at any
\* point of the run, and the per-file counts and the summary totals of a
\* completed run are those of the initial files, the same a normal-mode run
\* over the same initial files reports.
C2_DryRunChangesNoFile ==
    /\ DryFlag => (dir = dir0 /\ opened_w = {})
    /\ pc = "done" => ReportOfInitialFiles

C2_Witness ==
    /\ pc = "done"
    /\ \E i \in 1..Len(argv) : argv[i] = "-n"
    /\ files_updated >= 2
    /\ dir = dir0

\* C8: files are processed in lexicographic name order, and an error on one
\* file ends the run there: no step follows and no summary is printed; in
\* normal mode every processed file before the failing one that the
\* substitution changes is rewritten, every file after the failing one is as
\* it was; in dry-run mode no file is changed.
C8_ErrorEndsRun ==
    /\ \A a \in Processed :
          /\ \A i \in 1..Len(md_files) : LexLess(a, md_files[i])
          /\ \A b \in Candidates : LexLess(b, a) => b \in Processed
    /\ pc = "failed" =>
          /\ ~ENABLED Next
          /\ \A i \in 1..Len(stdout) : stdout[i].line \notin SummaryTexts
          /\ \A name \in Candidates :
                (~DryFlag /\ LexLess(name, failed_on) /\ CountOf(name) > 0)
                    => (dir[name] = UpdatedOf(name) /\ name \in opened_w)
          /\ \A name \in DOMAIN dir :
                LexLess(failed_on, name)
                    => (dir[name] = dir0[name] /\ name \notin opened_r \cup opened_w)
          /\ DryFlag => dir = dir0

C8_Witness ==
    /\ pc = "failed"
    /\ ~DryFlag
    /\ \E before \in Candidates :
          /\ LexLess(before, failed_on)
          /\ dir[before] # dir0[before]
          /\ dir[before] = UpdatedOf(before)
    /\ \E after \in Candidates :
          /\ LexLess(failed_on, after)
          /\ CountOf(after) > 0
          /\ dir[after] = dir0[after]

\* C9: a file without any prompt marker yields count 0, is not opened for
\* writing, keeps its content and gets no per-file line; when the run
\* completes, the files-updated total is the number of processed files with
\* a count above 0 and the total-replacements figure is the sum of their
\* counts.
C9_ZeroMarkersZeroCount ==
    /\ (\A i \in 1..Len(content) : ~MarkerAt(content, i)) => count = 0
    /\ \A name \in Processed :
          (\A i \in 1..Len(dir0[name]) : ~MarkerAt(dir0[name], i))
              => /\ name \notin opened_w
                 /\ dir[name] = dir0[name]
                 /\ \A i \in 1..Len(stdout) : stdout[i].name # name
    /\ pc = "done" =>
          /\ files_updated = Cardinality({name \in Processed : CountOf(name) > 0})
          /\ total_replaced = SumOfCounts({name \in Processed : CountOf(name) > 0})
          /\ SummaryShows(files_updated, total_replaced)

C9_Witness ==
    /\ pc = "done"
    /\ ~DryFlag
    /\ \E name \in Processed :
          /\ \A i \in 1..Len(dir0[name]) : ~MarkerAt(dir0[name], i)
          /\ name \notin opened_w
    /\ files_updated = 1
    /\ total_replaced = 2

\* C10: README.md is never opened, for reading or for writing, keeps its
\* content and gets no per-file line, whatever it holds, and the totals are
\* those of the per-file lines of the other files.
C10_ReadmeSkipped ==
    /\ README \notin opened_r \cup opened_w
    /\ README \in DOMAIN dir => dir[README] = dir0[README]
    /\ \A i \in 1..Len(stdout) : stdout[i].name # README
    /\ pc \in {"loop", "done"} =>
          /\ files_updated = Len(FileLines)
          /\ total_replaced = SumOfLines(FileLines)

C10_Witness ==
    /\ pc = "done"
    /\ README \in DOMAIN dir
    /\ \E i \in 1..Len(dir[README]) : MarkerAt(dir[README], i)
    /\ ~DryFlag
    /\ files_updated >= 1

====
